---- MODULE Spec2Model ----
(***************************************************************************)
(* Energy-simulation engine of the battery model: the per-component        *)
(* current models (core_model.py), the activity profiles                   *)
(* (software_model.py) and the three fixed-step integration drivers        *)
(* (scenario_static_benchmark.py, scenario_dynamic_journey.py, test.py).   *)
(*                                                                         *)
(* Fixed point.  The source computes in binary floating point; the model   *)
(* computes in integers:                                                   *)
(*   current            0.01 mA                                            *)
(*   charge             0.01 mA*s   (1 mAh = 360000 units)                 *)
(*   time               seconds     (the source's hours are seconds/3600)  *)
(*   SOC percent        0.0001 %                                           *)
(*   activity fraction  0.01        (percent of the instant)               *)
(*   efficiency eta     0.1                                                *)
(*   initial SOC        0.00001 of the full charge                         *)
(* Division rounds towards minus infinity (\div).                          *)
(***************************************************************************)
EXTENDS Integers, Sequences, FiniteSets, TLC

(***************************************************************************)
(* config.py                                                               *)
(***************************************************************************)
\* HardwareConfig.SYSTEM: voltage 3.7 V (in 0.1 V), Q 3700 mAh, eta 0.85 (in 0.01)
SYSTEM == [voltage |-> 37, Q |-> 3700, eta |-> 85]

\* HardwareConfig.DISPLAY['AMOLED']: C in mW, the coefficients in 0.01
AMOLED == [C |-> 50, beta_R |-> 80, beta_G |-> 60, beta_B |-> 100,
           a |-> 5, b |-> 0, avg_R |-> 128, avg_G |-> 128, avg_B |-> 128]

\* HardwareConfig.MEMORY: mA per GB/s, mA
MEMORY == [static_mA |-> 35, delta_read |-> 18, delta_write |-> 22]

\* HardwareConfig.STORAGE, in 0.01 mA
STORAGE == [current_idle |-> 250, current_active |-> 12000]

\* Signaling.CELLULAR: static currents and k_handoff in mA, k_rssi in 0.1,
\* alpha in 0.001
CELLULAR == [static_2g |-> 20, static_3g |-> 45, static_4g |-> 70,
             k_rssi |-> 6, alpha |-> 45, k_handoff |-> 15]

\* The battery capacity in charge units (0.01 mA*s): Q mAh * 3600 s * 100
QTotalUnits == SYSTEM.Q * 3600 * 100

Max(a, b) == IF a >= b THEN a ELSE b
Min(a, b) == IF a <= b THEN a ELSE b
Abs(a) == IF a >= 0 THEN a ELSE -a

(***************************************************************************)
(* core_model.py: the current contributor models, results in 0.01 mA       *)
(***************************************************************************)
\* Display.I(brightness), brightness in tenths.
\* p_pixel_mW * pixel_count = (beta_R*R + beta_G*G + beta_B*B + a*(R+G+B) + b)
\* * 0.001 * 1000000 with R = avg_R/255, ...; power = C + brightness * that.
DisplayI(brightness) ==
    LET pixels_mW == ((AMOLED.beta_R * AMOLED.avg_R + AMOLED.beta_G * AMOLED.avg_G
                       + AMOLED.beta_B * AMOLED.avg_B
                       + AMOLED.a * (AMOLED.avg_R + AMOLED.avg_G + AMOLED.avg_B)) * 10)
                     \div 255 + AMOLED.b * 10
        power_mW == AMOLED.C + (brightness * pixels_mW) \div 10
    IN  (power_mW * 1000) \div SYSTEM.voltage

\* Processor.I(f_cpu, mu_cpu, f_gpu, mu_gpu): frequencies in MHz, loads in tenths.
\* a_c = 1.15e-05, b_c = 1.05e-03, c_c = 20.61, a_g = 8.50e-06, b_g = 1.20e-03,
\* c_g = 15.00; the dynamic terms are computed in 0.0000001 mA and kept in
\* 0.0001 mA.
ProcessorI(f_cpu, mu_cpu, f_gpu, mu_gpu) ==
    LET i_cpu_dyn == (mu_cpu * ((115 * f_cpu * f_cpu + 10500 * f_cpu) \div 1000)) \div 10
        i_gpu_dyn == (mu_gpu * ((85 * f_gpu * f_gpu + 12000 * f_gpu) \div 1000)) \div 10
        i_static == 206100 + 150000
    IN  (i_cpu_dyn + i_gpu_dyn + i_static) \div SYSTEM.eta

\* Memory.I(bw_r, bw_w): bandwidths in 0.01 GB/s.
MemoryI(bw_r, bw_w) ==
    LET i_dynamic == MEMORY.delta_read * bw_r + MEMORY.delta_write * bw_w
    IN  ((i_dynamic + MEMORY.static_mA * 100) * 100) \div SYSTEM.eta

\* Storage.I(is_active)
StorageI(is_active) ==
    LET i_raw == IF is_active THEN STORAGE.current_active ELSE STORAGE.current_idle
    IN  (i_raw * 100) \div SYSTEM.eta

\* Sensors: the three tables of __init__, in mA, and dict.get(key, default)
gps_map == [off |-> 0, track |-> 60, search |-> 140]
cam_map == [off |-> 0, preview |-> 450, video |-> 600]
imu_map == [low |-> 2, high |-> 15]
DictGet(map, key, default) == IF key \in DOMAIN map THEN map[key] ELSE default

\* Sensors.I(gps_mode, cam_mode, imu_mode)
SensorsI(gps_mode, cam_mode, imu_mode) ==
    LET i_gps == DictGet(gps_map, gps_mode, 0)
        i_cam == DictGet(cam_map, cam_mode, 0)
        i_imu == DictGet(imu_map, imu_mode, 2)
        i_total_raw == i_gps + i_cam + i_imu
    IN  (i_total_raw * 10000) \div SYSTEM.eta

\* Cellular.I(network_type, rssi_db, handoff_rate), handoff_rate in tenths.
\* static_currents[network_type] raises KeyError for a key outside the table:
\* the result is then the string "KeyError".
static_currents == [n2G |-> CELLULAR.static_2g, n3G |-> CELLULAR.static_3g,
                    n4G |-> CELLULAR.static_4g]
NetKey(network_type) == CASE network_type = "2G" -> "n2G"
                          [] network_type = "3G" -> "n3G"
                          [] network_type = "4G" -> "n4G"
                          [] OTHER -> "none"
CellularI(network_type, rssi_db, handoff_rate) ==
    IF NetKey(network_type) \notin DOMAIN static_currents THEN "KeyError"
    ELSE LET I_static == static_currents[NetKey(network_type)] * 100
             rssi_offset == Abs(rssi_db) - 50
             \* k_rssi * (1 + alpha * rssi_offset), in 0.0001 mA, kept in 0.01 mA
             I_signal == (CELLULAR.k_rssi * (1000 + CELLULAR.alpha * rssi_offset)) \div 100
             I_handoff == (CELLULAR.k_handoff * 100 * handoff_rate) \div 10
         IN  I_static + I_signal + I_handoff

(***************************************************************************)
(* software_model.py: the activity profiles                                *)
(***************************************************************************)
\* SoftwareParams.EFFICIENCY_FACTORS, in tenths
EFFICIENCY_FACTORS ==
    [network |-> [video_stream |-> 12, social_media |-> 25, navigation |-> 15,
                  web_browse |-> 18, music |-> 13, idle |-> 10],
     screen  |-> [video_watch |-> 13, social_scroll |-> 18, map_view |-> 15,
                  reading |-> 12, off |-> 10],
     gps     |-> [continuous |-> 10, periodic |-> 15, off |-> 10],
     cpu     |-> [video_decode |-> 13, ui_render |-> 15, audio_decode |-> 11,
                  idle |-> 10]]

\* The values np.random.choice([0.0, 0.3, 1.0], p=[0.7, 0.2, 0.1]) can return,
\* in percent
RandomChoices == {0, 30, 100}

\* SoftwareParams.get_activity(t_seconds, app_type, hardware), in percent.
\* draw is the value np.random.choice returns if this call reaches it.
\* "t % 10 < 0.5" and "t % 30 < 0.1" compare in tenths of a second.
RECURSIVE get_activity(_, _, _, _)
get_activity(t_seconds, app_type, hardware, draw) ==
    CASE hardware = "screen" ->
           (CASE app_type = "video_stream" -> IF t_seconds % 600 < 590 THEN 100 ELSE 0
              [] app_type = "social_media" -> IF t_seconds % 60 < 45 THEN 100 ELSE 0
              [] app_type = "navigation"   -> 100
              [] app_type = "web_browse"   -> IF t_seconds % 60 < 50 THEN 100 ELSE 0
              [] OTHER -> 0)
      [] hardware = "network" ->
           (CASE app_type = "video_stream" ->
                   LET cycle == t_seconds % 30 IN IF cycle < 5 THEN 100 ELSE 30
              [] app_type = "social_media" ->
                   IF (t_seconds % 10) * 10 < 5 THEN 100 ELSE 10
              [] app_type = "navigation"   -> IF t_seconds % 60 < 2 THEN 100 ELSE 20
              [] app_type = "web_browse"   -> draw
              [] OTHER -> IF (t_seconds % 30) * 10 < 1 THEN 1 ELSE 0)
      [] hardware = "cpu" ->
           LET screen_act == get_activity(t_seconds, app_type, "screen", draw)
           IN  IF app_type = "music" THEN 30 ELSE (screen_act * 7) \div 10 + 10
      [] hardware = "gps" -> IF app_type = "navigation" THEN 100 ELSE 0
      [] hardware = "memory" ->
           LET cpu_act == get_activity(t_seconds, app_type, "cpu", draw)
           IN  IF app_type = "music" THEN (cpu_act * 3) \div 10 ELSE (cpu_act * 5) \div 10
      [] hardware = "storage" ->
           IF app_type = "social_media"
           THEN (IF t_seconds % 30 < 1 THEN 100 ELSE 0)
           ELSE 0
      [] OTHER -> 0

\* VideoStreamApp.get_params(t_seconds).  brightness and loads in tenths,
\* bandwidths in 0.01 GB/s, activities in percent, eta in tenths.
VideoStreamApp_get_params(t_seconds, draw) ==
    LET app_type == "video_stream" IN
    [screen  |-> [brightness |-> 8,
                  activity |-> get_activity(t_seconds, app_type, "screen", draw),
                  eta |-> EFFICIENCY_FACTORS.screen.video_watch],
     network |-> [network_type |-> "4G", rssi_db |-> -70,
                  activity |-> get_activity(t_seconds, app_type, "network", draw),
                  eta |-> EFFICIENCY_FACTORS.network[app_type]],
     cpu     |-> [freq |-> 1800, load |-> 6,
                  activity |-> get_activity(t_seconds, app_type, "cpu", draw),
                  eta |-> EFFICIENCY_FACTORS.cpu.video_decode],
     gpu     |-> [freq |-> 500, load |-> 4,
                  activity |-> (get_activity(t_seconds, app_type, "cpu", draw) * 8) \div 10,
                  eta |-> 12],
     gps     |-> [activity |-> 0, mode |-> "off", eta |-> 10],
     memory  |-> [bw_r |-> 50, bw_w |-> 10,
                  activity |-> get_activity(t_seconds, app_type, "memory", draw),
                  eta |-> 10],
     storage |-> [is_active |-> get_activity(t_seconds, app_type, "storage", draw) > 50,
                  activity |-> get_activity(t_seconds, app_type, "storage", draw),
                  eta |-> 10]]

\* SocialMediaApp.get_params(t_seconds)
SocialMediaApp_get_params(t_seconds, draw) ==
    LET app_type == "social_media" IN
    [screen  |-> [brightness |-> 6,
                  activity |-> get_activity(t_seconds, app_type, "screen", draw),
                  eta |-> EFFICIENCY_FACTORS.screen.social_scroll],
     network |-> [network_type |-> "4G", rssi_db |-> -75,
                  activity |-> get_activity(t_seconds, app_type, "network", draw),
                  eta |-> EFFICIENCY_FACTORS.network[app_type]],
     cpu     |-> [freq |-> 1400, load |-> 4,
                  activity |-> get_activity(t_seconds, app_type, "cpu", draw),
                  eta |-> EFFICIENCY_FACTORS.cpu.ui_render],
     gpu     |-> [freq |-> 300, load |-> 3,
                  activity |-> (get_activity(t_seconds, app_type, "cpu", draw) * 6) \div 10,
                  eta |-> 15],
     gps     |-> [activity |-> 0, mode |-> "off", eta |-> 10],
     memory  |-> [bw_r |-> 20, bw_w |-> 5,
                  activity |-> get_activity(t_seconds, app_type, "memory", draw),
                  eta |-> 10],
     storage |-> [is_active |-> get_activity(t_seconds, app_type, "storage", draw) > 50,
                  activity |-> get_activity(t_seconds, app_type, "storage", draw),
                  eta |-> 10]]

\* NavigationApp.get_params(t_seconds)
NavigationApp_get_params(t_seconds, draw) ==
    LET app_type == "navigation" IN
    [screen  |-> [brightness |-> 7,
                  activity |-> get_activity(t_seconds, app_type, "screen", draw),
                  eta |-> EFFICIENCY_FACTORS.screen.map_view],
     network |-> [network_type |-> "4G", rssi_db |-> -80,
                  activity |-> get_activity(t_seconds, app_type, "network", draw),
                  eta |-> EFFICIENCY_FACTORS.network[app_type]],
     cpu     |-> [freq |-> 1600, load |-> 5,
                  activity |-> get_activity(t_seconds, app_type, "cpu", draw),
                  eta |-> EFFICIENCY_FACTORS.cpu.ui_render],
     gpu     |-> [freq |-> 400, load |-> 5,
                  activity |-> (get_activity(t_seconds, app_type, "cpu", draw) * 9) \div 10,
                  eta |-> 13],
     gps     |-> [activity |-> get_activity(t_seconds, app_type, "gps", draw),
                  mode |-> "track", eta |-> EFFICIENCY_FACTORS.gps.continuous],
     memory  |-> [bw_r |-> 30, bw_w |-> 10,
                  activity |-> get_activity(t_seconds, app_type, "memory", draw),
                  eta |-> 10],
     storage |-> [is_active |-> FALSE, activity |-> 0, eta |-> 10]]

\* WebBrowserApp.get_params(t_seconds): the one profile that draws at random
WebBrowserApp_get_params(t_seconds, draw) ==
    LET app_type == "web_browse" IN
    [screen  |-> [brightness |-> 5,
                  activity |-> get_activity(t_seconds, app_type, "screen", draw),
                  eta |-> EFFICIENCY_FACTORS.screen.reading],
     network |-> [network_type |-> "4G", rssi_db |-> -72,
                  activity |-> get_activity(t_seconds, app_type, "network", draw),
                  eta |-> EFFICIENCY_FACTORS.network[app_type]],
     cpu     |-> [freq |-> 1500, load |-> 5,
                  activity |-> get_activity(t_seconds, app_type, "cpu", draw),
                  eta |-> EFFICIENCY_FACTORS.cpu.ui_render],
     gpu     |-> [freq |-> 350, load |-> 4,
                  activity |-> (get_activity(t_seconds, app_type, "cpu", draw) * 7) \div 10,
                  eta |-> 14],
     gps     |-> [activity |-> 0, mode |-> "off", eta |-> 10],
     memory  |-> [bw_r |-> 40, bw_w |-> 8,
                  activity |-> get_activity(t_seconds, app_type, "memory", draw),
                  eta |-> 10],
     storage |-> [is_active |-> FALSE, activity |-> 0, eta |-> 10]]

\* Mutant: the CPU activity of the music profile as a percentage, not a fraction
MusicApp_get_params_percent(t_seconds, draw) ==
    [screen  |-> [brightness |-> 0, activity |-> 0, eta |-> 10],
     network |-> [network_type |-> "4G", rssi_db |-> -70,
                  activity |-> IF (t_seconds % 30) * 10 < 5 THEN 1 ELSE 0,
                  eta |-> 10],
     cpu     |-> [freq |-> 300, load |-> 1, activity |-> 3000, eta |-> 10],
     gpu     |-> [freq |-> 0, load |-> 0, activity |-> 0, eta |-> 10],
     gps     |-> [activity |-> 0, mode |-> "off", eta |-> 10],
     memory  |-> [bw_r |-> 1, bw_w |-> 0, activity |-> 10, eta |-> 10],
     storage |-> [is_active |-> FALSE, activity |-> 0, eta |-> 10]]

\* MusicApp.get_params(t_seconds): literal activities, not get_activity
MusicApp_get_params(t_seconds, draw) ==
    [screen  |-> [brightness |-> 0, activity |-> 0, eta |-> 10],
     network |-> [network_type |-> "4G", rssi_db |-> -70,
                  activity |-> IF (t_seconds % 30) * 10 < 5 THEN 1 ELSE 0,
                  eta |-> 10],
     cpu     |-> [freq |-> 300, load |-> 1, activity |-> 30, eta |-> 10],
     gpu     |-> [freq |-> 0, load |-> 0, activity |-> 0, eta |-> 10],
     gps     |-> [activity |-> 0, mode |-> "off", eta |-> 10],
     memory  |-> [bw_r |-> 1, bw_w |-> 0, activity |-> 10, eta |-> 10],
     storage |-> [is_active |-> FALSE, activity |-> 0, eta |-> 10]]

\* The keys of the apps table of get_app
AppNames == {"video", "social", "navigation", "browser", "music"}

\* get_app(app_name): the profile of the name, or None; get_params of it
get_app(app_name) == IF app_name \in AppNames THEN app_name ELSE "None"
get_params(app, t_seconds, draw) ==
    CASE app = "video"      -> VideoStreamApp_get_params(t_seconds, draw)
      [] app = "social"     -> SocialMediaApp_get_params(t_seconds, draw)
      [] app = "navigation" -> NavigationApp_get_params(t_seconds, draw)
      [] app = "browser"    -> WebBrowserApp_get_params(t_seconds, draw)
      [] app = "music"      -> MusicApp_get_params(t_seconds, draw)

\* Whether get_params of the profile reaches np.random.choice
DrawsOf(app_name) == IF app_name = "browser" THEN RandomChoices ELSE {0}

(***************************************************************************)
(* The total instantaneous current of the three drivers, in 0.01 mA        *)
(***************************************************************************)
\* I * activity * eta, the term every subsystem adds to the total
Weighted(I, activity, eta) == (I * activity * eta) \div 1000

\* StaticBenchmark.calculate_current_for_app(app_name, t_seconds)
\* (the sum it forms from the params of the profile, then the function)
Static_I_total(params) ==
    LET I_display == IF params.screen.activity > 0
            THEN Weighted(DisplayI(params.screen.brightness),
                          params.screen.activity, params.screen.eta) ELSE 0
        I_cpu == IF params.cpu.activity > 0
            THEN Weighted(ProcessorI(params.cpu.freq, params.cpu.load,
                                     params.gpu.freq, params.gpu.load),
                          params.cpu.activity, params.cpu.eta) ELSE 0
        I_mem == IF params.memory.activity > 0
            THEN Weighted(MemoryI(params.memory.bw_r, params.memory.bw_w),
                          params.memory.activity, params.memory.eta) ELSE 0
        I_storage == IF params.storage.activity > 0
            THEN Weighted(StorageI(params.storage.is_active),
                          params.storage.activity, params.storage.eta) ELSE 0
        I_gps == IF params.gps.activity > 0
            THEN Weighted(SensorsI(params.gps.mode, "off", "low"),
                          params.gps.activity, params.gps.eta) ELSE 0
        I_net == IF params.network.activity > 0
            THEN Weighted(CellularI(params.network.network_type,
                                    params.network.rssi_db, 10),
                          params.network.activity, params.network.eta) ELSE 0
    IN  I_display + I_cpu + I_mem + I_storage + I_gps + I_net

calculate_current_for_app(app_name, t_seconds, draw) ==
    IF get_app(app_name) = "None" THEN 0
    ELSE Static_I_total(get_params(get_app(app_name), t_seconds, draw))

\* DynamicJourneySimulator.calculate_current(app_name, t_seconds)
\* (the sum it forms from the params of the profile, then the function)
\* Mutant: the journey driver without the storage term
Journey_I_total_noStorage(params) ==
    Static_I_total(params)
      - (IF params.storage.activity > 0
         THEN Weighted(StorageI(params.storage.is_active),
                       params.storage.activity, params.storage.eta) ELSE 0)

Journey_I_total(params) ==
    LET I_display == IF params.screen.activity > 0
            THEN Weighted(DisplayI(params.screen.brightness),
                          params.screen.activity, params.screen.eta) ELSE 0
        I_cpu == IF params.cpu.activity > 0
            THEN Weighted(ProcessorI(params.cpu.freq, params.cpu.load,
                                     params.gpu.freq, params.gpu.load),
                          params.cpu.activity, params.cpu.eta) ELSE 0
        I_mem == IF params.memory.activity > 0
            THEN Weighted(MemoryI(params.memory.bw_r, params.memory.bw_w),
                          params.memory.activity, params.memory.eta) ELSE 0
        I_storage == IF params.storage.activity > 0
            THEN Weighted(StorageI(params.storage.is_active),
                          params.storage.activity, params.storage.eta) ELSE 0
        I_gps == IF params.gps.activity > 0
            THEN Weighted(SensorsI(params.gps.mode, "off", "low"),
                          params.gps.activity, params.gps.eta) ELSE 0
        I_net == IF params.network.activity > 0
            THEN Weighted(CellularI(params.network.network_type,
                                    params.network.rssi_db, 10),
                          params.network.activity, params.network.eta) ELSE 0
    IN  I_display + I_cpu + I_mem + I_storage + I_gps + I_net

Journey_calculate_current(app_name, t_seconds, draw) ==
    IF get_app(app_name) = "None" THEN 0
    ELSE Journey_I_total(get_params(get_app(app_name), t_seconds, draw))

\* BatterySimulator.calculate_current(t_seconds, app): CPU and GPU are
\* evaluated apart, the CPU share is 0.7 of Processor.I, handoff_rate is 0.1
\* (the sum it forms from the params of the profile, then the function)
Battery_I_total(params) ==
    LET I_screen == IF params.screen.activity > 0
            THEN Weighted(DisplayI(params.screen.brightness),
                          params.screen.activity, params.screen.eta) ELSE 0
        base_cpu_only == (ProcessorI(params.cpu.freq, params.cpu.load, 0, 0) * 7) \div 10
        I_cpu == IF params.cpu.activity > 0
            THEN Weighted(base_cpu_only, params.cpu.activity, params.cpu.eta) ELSE 0
        I_gpu == IF params.gpu.activity > 0
            THEN Weighted(ProcessorI(0, 0, params.gpu.freq, params.gpu.load),
                          params.gpu.activity, params.gpu.eta) ELSE 0
        I_mem == IF params.memory.activity > 0
            THEN Weighted(MemoryI(params.memory.bw_r, params.memory.bw_w),
                          params.memory.activity, params.memory.eta) ELSE 0
        I_store == IF params.storage.activity > 0
            THEN Weighted(StorageI(params.storage.is_active),
                          params.storage.activity, params.storage.eta) ELSE 0
        I_net == IF params.network.activity > 0
            THEN Weighted(CellularI(params.network.network_type,
                                    params.network.rssi_db, 1),
                          params.network.activity, params.network.eta) ELSE 0
        I_gps == IF params.gps.activity > 0
            THEN Weighted(SensorsI(params.gps.mode, "off", "low"),
                          params.gps.activity, params.gps.eta) ELSE 0
    IN  I_screen + I_cpu + I_gpu + I_mem + I_store + I_net + I_gps

Battery_calculate_current(t_seconds, app, draw) ==
    Battery_I_total(get_params(app, t_seconds, draw))

(***************************************************************************)
(* Inputs of the runs                                                      *)
(***************************************************************************)
\* Bounds of the model
MaxSegments == 2
MaxMinutes == 2
MaxBoundUnits == 4
ProbeBeyond == 8

Seg(app, duration) == [app |-> app, duration |-> duration]

\* DynamicJourneySimulator.__init__: self.journeys, durations in minutes
SourceJourneys ==
    [journey_1 |-> << Seg("video", 120), Seg("music", 120) >>,
     journey_2 |-> << Seg("navigation", 60), Seg("social", 60), Seg("browser", 120) >>,
     journey_3 |-> << Seg("navigation", 30), Seg("social", 60), Seg("video", 60),
                      Seg("music", 90), Seg("browser", 60) >>,
     journey_4 |-> << Seg("navigation", 180), Seg("music", 60) >>]

\* The four journeys with their app order kept and their durations cut to a
\* few minutes, so that a run with the web-browser's random draws stays small
ShortJourneys ==
    { << Seg("video", 2), Seg("music", 2) >>,
      << Seg("navigation", 1), Seg("social", 1), Seg("browser", 2) >>,
      << Seg("navigation", 1), Seg("social", 1), Seg("video", 1),
         Seg("music", 1), Seg("browser", 1) >>,
      << Seg("navigation", 3), Seg("music", 1) >> }

\* Every journey of at most MaxSegments segments of 1..MaxMinutes minutes over
\* the profiles that do not draw at random
SegmentChoices == { Seg(a, d) : a \in AppNames \ {"browser"}, d \in 1..MaxMinutes }
GeneratedJourneys ==
    UNION { [1..n -> SegmentChoices] : n \in 1..MaxSegments }

\* The journeys simulate_journey is run on
Journeys == ShortJourneys \cup GeneratedJourneys
               \cup {SourceJourneys.journey_1, SourceJourneys.journey_4}

\* The journeys get_current_app is probed on
ProbeJourneys == ShortJourneys \cup { SourceJourneys[k] : k \in DOMAIN SourceJourneys }

\* Initial state of charge, in 0.00001 of the full charge (soc_initial of the
\* static and dynamic drivers; start_soc / 100 of BatterySimulator.simulate):
\* from a charge one step exhausts to the full battery
SocLevels == {1, 10, 50, 100, 1000, 100000}

\* App names handed to the static driver and to BatterySimulator.simulate:
\* the five profiles and a name get_app does not know
RunApps == AppNames \cup {"unknown"}

\* Time bounds in seconds (max_hours * 3600) of the static driver and of
\* BatterySimulator.simulate
StaticBounds == { 30 * k : k \in 1..MaxBoundUnits }
SimulateBounds == { 2 * k : k \in 1..MaxBoundUnits }

(***************************************************************************)
(* State                                                                   *)
(***************************************************************************)
VARIABLES
    driver,         \* which entry point runs: "journey", "static", "simulate",
                    \* "probe", "bench", "interp", "model", "profile"
    pc,             \* "loop" while the integration loop runs, "done" after the return
    journey,        \* journey['segments'] of simulate_journey
    app_name,       \* app_name of simulate_single_scenario / simulate
    soc_initial,    \* soc_initial (start_soc / 100), in 0.00001
    max_seconds,    \* max_seconds = max_hours * 3600
    Q_current,      \* Q_current / remaining_charge, in 0.01 mA*s
    t_seconds,      \* t_seconds / current_time
    elapsed_time,   \* elapsed_time of simulate_single_scenario
    I_now,          \* I_now / current_current of the last step, in 0.01 mA
    I_lo, I_hi,     \* smallest and largest I_now of the steps taken so far
    segment_index, current_segment_start,
    time_points, soc_points, current_points, app_points, segment_points,
    hourly_records, \* hourly_records of BatterySimulator.simulate
    probe,          \* the last call of get_current_app: [elapsed, app, start]
    result,         \* what the entry point returned, "none" before
    rng_state,      \* the global state of np.random: [seed, pos]
    bench_runs,     \* the runs of simulate_single_scenario made so far by one
                    \* process, each with the np.random state it started from
    call            \* a call of a function on its own: its arguments and ret,
                    \* what it returned or the exception it raised

\* The state of one run of a driver and of the get_current_app calls
run_vars == << driver, pc, journey, app_name, soc_initial, max_seconds, Q_current,
               t_seconds, elapsed_time, I_now, I_lo, I_hi, segment_index,
               current_segment_start, time_points, soc_points, current_points,
               app_points, segment_points, hourly_records, probe, result >>

\* The state that outlives a run
shared_vars == << rng_state, bench_runs >>

vars == << run_vars, shared_vars, call >>

(***************************************************************************)
(* scenario_dynamic_journey.py: simulate_journey                           *)
(***************************************************************************)
RECURSIVE SumDurations(_, _)
SumDurations(segments, n) ==
    IF n = 0 THEN 0 ELSE SumDurations(segments, n - 1) + segments[n].duration

\* total_duration = sum(seg['duration'] ...) * 60
total_duration(segments) == SumDurations(segments, Len(segments)) * 60

\* dt of simulate_journey, in seconds
JourneyDt == 15
\* t_seconds % 120 == 0: a sample every 2 minutes
JourneySampleEvery == 120

\* Mutant: the comparison made strict, a boundary then belongs to the later
\* segment
SegmentCovers_strict(elapsed_seconds, cumulative) == elapsed_seconds < cumulative * 60

\* "elapsed_minutes <= cumulative" with elapsed_minutes = elapsed_seconds / 60.0
SegmentCovers(elapsed_seconds, cumulative) == elapsed_seconds <= cumulative * 60

\* get_current_app(elapsed_seconds): the for loop from segment i on, with
\* cumulative the sum of the durations before it
RECURSIVE get_current_app_from(_, _, _, _)
get_current_app_from(segments, i, cumulative, elapsed_seconds) ==
    IF i > Len(segments) THEN [app |-> "music", start |-> 0]
    ELSE LET cum == cumulative + segments[i].duration IN
         IF SegmentCovers(elapsed_seconds, cum)
         THEN [app |-> segments[i].app, start |-> cum - segments[i].duration]
         ELSE get_current_app_from(segments, i + 1, cum, elapsed_seconds)

get_current_app(segments, elapsed_seconds) ==
    get_current_app_from(segments, 1, 0, elapsed_seconds)

\* Q_current / self.Q_total * 100, in 0.0001 %
SocPercent(Q) == Q \div (QTotalUnits \div 1000000)

\* Mutant: the SOC without max(0, ...)
ClampedSoc_unclamped(Q) == SocPercent(Q)

\* max(0, Q_current / self.Q_total * 100)
ClampedSoc(Q) == Max(0, SocPercent(Q))

\* Mutant: the initial charge falling as soc_initial rises
InitialCharge_inverted(soc) == (100001 - soc) * (QTotalUnits \div 100000)

\* soc_initial * self.Q_total
InitialCharge(soc) == soc * (QTotalUnits \div 100000)

\* while t_seconds <= total_duration and Q_current > 0
JourneyLoopCond(t, total, Q) == t <= total /\ Q > 0

\* "Detect segment change": the guard of the two assignments
SegmentChanged(t, segment_start, seg_start_seen) ==
    /\ (t = 0 \/ (t - segment_start * 60) < JourneyDt)
    /\ segment_start > seg_start_seen

\* if t_seconds % 120 == 0
JourneyRecords(t) == t % JourneySampleEvery = 0

\* Mutant: the charge update moved into the "Record data" branch
JourneyAfterStep_sampledOnly(t, Q, I) ==
    [t |-> t + JourneyDt,
     Q |-> IF t % JourneySampleEvery = 0 THEN Q - I * JourneyDt ELSE Q]

\* Mutant: the step's charge added instead of subtracted
JourneyAfterStep_charging(t, Q, I) == [t |-> t + JourneyDt, Q |-> Q + I * JourneyDt]

\* "Update battery" and "Advance time": the time and the charge after a step
\* that starts at t with charge Q and draws the current I
JourneyAfterStep(t, Q, I) == [t |-> t + JourneyDt, Q |-> Q - I * JourneyDt]

\* Mutant: the sample is stamped with the time after "Advance time"
JourneySample_lateTime(t, Q, I, app, idx) ==
    [time |-> t + JourneyDt, soc |-> ClampedSoc(Q), current |-> I, app |-> app,
     segment |-> idx]

\* "Record data": the sample of the step that starts at t, Q being the charge
\* after the step and I the current just computed
JourneySample(t, Q, I, app, idx) ==
    [time |-> t, soc |-> ClampedSoc(Q), current |-> I, app |-> app, segment |-> idx]

\* One iteration of the main simulation loop
JourneyStep ==
    /\ driver = "journey" /\ pc = "loop"
    /\ JourneyLoopCond(t_seconds, total_duration(journey), Q_current)
    /\ LET cur == get_current_app(journey, t_seconds)
           changed == SegmentChanged(t_seconds, cur.start, current_segment_start)
           idx == IF changed THEN segment_index + 1 ELSE segment_index
       IN  \E draw \in DrawsOf(cur.app) :
             LET I == Journey_calculate_current(cur.app, t_seconds, draw)
                 after == JourneyAfterStep(t_seconds, Q_current, I)
                 sample == JourneySample(t_seconds, after.Q, I, cur.app, idx)
             IN  /\ current_segment_start' =
                        IF changed THEN cur.start ELSE current_segment_start
                 /\ segment_index' = idx
                 /\ I_now' = I
                 /\ I_lo' = IF t_seconds = 0 THEN I ELSE Min(I_lo, I)
                 /\ I_hi' = IF t_seconds = 0 THEN I ELSE Max(I_hi, I)
                 /\ Q_current' = after.Q
                 /\ IF JourneyRecords(t_seconds)
                    THEN /\ time_points' = Append(time_points, sample.time)
                         /\ soc_points' = Append(soc_points, sample.soc)
                         /\ current_points' = Append(current_points, sample.current)
                         /\ app_points' = Append(app_points, sample.app)
                         /\ segment_points' = Append(segment_points, sample.segment)
                    ELSE UNCHANGED << time_points, soc_points, current_points,
                                      app_points, segment_points >>
                 /\ t_seconds' = after.t
    /\ UNCHANGED << driver, pc, journey, app_name, soc_initial, max_seconds,
                    elapsed_time, hourly_records, probe, result >>
    /\ UNCHANGED << shared_vars, call >>

\* Mutant: the end-state record appended to every series
NeedsEndRecord_always(times, total) == total >= 0

\* "Ensure we record the end state": the condition of the appended record
NeedsEndRecord(times, total) ==
    Len(times) = 0 \/ times[Len(times)] < total

\* The loop is left: the end-state record and the returned dictionary
JourneyReturn ==
    /\ driver = "journey" /\ pc = "loop"
    /\ ~JourneyLoopCond(t_seconds, total_duration(journey), Q_current)
    /\ LET total == total_duration(journey)
           final_soc == ClampedSoc(Q_current)
       IN  /\ IF NeedsEndRecord(time_points, total)
              THEN /\ time_points' = Append(time_points, Min(t_seconds, total))
                   /\ soc_points' = Append(soc_points, ClampedSoc(Q_current))
                   /\ current_points' = Append(current_points, 0)
                   /\ app_points' = Append(app_points, "end")
                   /\ segment_points' = Append(segment_points, segment_index)
              ELSE UNCHANGED << time_points, soc_points, current_points,
                                app_points, segment_points >>
           /\ result' = [final_soc |-> final_soc,
                         energy_used |-> (soc_initial * 10 - final_soc)
                                            * (QTotalUnits \div 1000000),
                         total_duration |-> total]
    /\ pc' = "done"
    /\ UNCHANGED << driver, journey, app_name, soc_initial, max_seconds, Q_current,
                    t_seconds, elapsed_time, I_now, I_lo, I_hi, segment_index,
                    current_segment_start, hourly_records, probe >>
    /\ UNCHANGED << shared_vars, call >>

\* A call of get_current_app on its own: the calls sweep the multiples of dt
\* from 0 to ProbeBeyond steps past the end of the journey
LastProbeTime(segments) == total_duration(segments) + ProbeBeyond * JourneyDt

Probe ==
    /\ driver = "probe"
    /\ LET e == probe.elapsed + JourneyDt
           r == get_current_app(journey, e)
       IN  /\ e <= LastProbeTime(journey)
           /\ probe' = [elapsed |-> e, app |-> r.app, start |-> r.start]
    /\ UNCHANGED << driver, pc, journey, app_name, soc_initial, max_seconds,
                    Q_current, t_seconds, elapsed_time, I_now, I_lo, I_hi,
                    segment_index, current_segment_start, time_points, soc_points,
                    current_points, app_points, segment_points, hourly_records,
                    result >>
    /\ UNCHANGED << shared_vars, call >>

(***************************************************************************)
(* scenario_static_benchmark.py: simulate_single_scenario                  *)
(***************************************************************************)
\* Mutant: a time step of zero, the elapsed time never advances
StaticDt_stuck == 10 - 10

\* dt of simulate_single_scenario, in seconds
StaticDt == 10

\* while t_seconds < max_seconds and Q_current > 0
StaticLoopCond(t, bound, Q) == t < bound /\ Q > 0

\* The multiples of 0.005 h below 2250 s that round(x, 2) rounds up; the
\* others round down (the binary value of seconds / 3600 decides a tie)
TiesRoundedUp == {90, 810, 990, 1170, 1350, 1890}

\* round(seconds / 3600.0, 2), in 0.01 h
Round2Hours(seconds) ==
    LET whole == seconds \div 36
        rest == seconds % 36
    IN  IF rest < 18 THEN whole
        ELSE IF rest > 18 THEN whole + 1
        ELSE IF seconds \in TiesRoundedUp THEN whole + 1 ELSE whole

StaticStep ==
    /\ driver = "static" /\ pc = "loop"
    /\ StaticLoopCond(t_seconds, max_seconds, Q_current)
    /\ \E draw \in DrawsOf(app_name) :
         LET I == calculate_current_for_app(app_name, t_seconds, draw)
         IN  /\ I_now' = I
             /\ I_lo' = IF t_seconds = 0 THEN I ELSE Min(I_lo, I)
             /\ I_hi' = IF t_seconds = 0 THEN I ELSE Max(I_hi, I)
             /\ Q_current' = Q_current - I * StaticDt
    /\ t_seconds' = t_seconds + StaticDt
    /\ elapsed_time' = t_seconds'
    /\ UNCHANGED << driver, pc, journey, app_name, soc_initial, max_seconds,
                    segment_index, current_segment_start, time_points, soc_points,
                    current_points, app_points, segment_points, hourly_records,
                    probe, result >>
    /\ UNCHANGED << shared_vars, call >>

\* Mutant: the two branches of the TTE swapped
StaticTte_swapped(Q, elapsed, bound) == IF Q <= 0 THEN bound ELSE elapsed

\* tte_hours: elapsed_time / 3600 when depleted, max_hours otherwise
StaticTte(Q, elapsed, bound) == IF Q <= 0 THEN elapsed ELSE bound

StaticReturn ==
    /\ driver = "static" /\ pc = "loop"
    /\ ~StaticLoopCond(t_seconds, max_seconds, Q_current)
    /\ result' = [tte |-> Round2Hours(StaticTte(Q_current, elapsed_time, max_seconds))]
    /\ pc' = "done"
    /\ UNCHANGED << driver, journey, app_name, soc_initial, max_seconds, Q_current,
                    t_seconds, elapsed_time, I_now, I_lo, I_hi, segment_index,
                    current_segment_start, time_points, soc_points, current_points,
                    app_points, segment_points, hourly_records, probe >>
    /\ UNCHANGED << shared_vars, call >>

(***************************************************************************)
(* test.py: BatterySimulator.simulate                                      *)
(***************************************************************************)
\* dt of BatterySimulator.simulate, in seconds
SimDt == 1
\* current_time % 3600 < dt: a record every hour
SimRecordEvery == 3600

\* while remaining_charge > 0 and current_time < max_hours * 3600
SimLoopCond(Q, t, bound) == Q > 0 /\ t < bound

\* The soc of an hourly record: (remaining_charge / capacity) * 100
SimRecordSoc(Q) == SocPercent(Q)

SimulateStep ==
    /\ driver = "simulate" /\ pc = "loop"
    /\ get_app(app_name) # "None"
    /\ SimLoopCond(Q_current, t_seconds, max_seconds)
    /\ \E draw \in DrawsOf(app_name) :
         LET I == Battery_calculate_current(t_seconds, get_app(app_name), draw)
             Q == Q_current - I * SimDt
         IN  /\ I_now' = I
             /\ I_lo' = IF t_seconds = 0 THEN I ELSE Min(I_lo, I)
             /\ I_hi' = IF t_seconds = 0 THEN I ELSE Max(I_hi, I)
             /\ Q_current' = Q
             /\ hourly_records' =
                  IF t_seconds % SimRecordEvery < SimDt
                  THEN Append(hourly_records,
                              [hour |-> t_seconds, soc |-> SimRecordSoc(Q),
                               current |-> I, remaining_mAh |-> Q])
                  ELSE hourly_records
    /\ t_seconds' = t_seconds + SimDt
    /\ UNCHANGED << driver, pc, journey, app_name, soc_initial, max_seconds,
                    elapsed_time, segment_index, current_segment_start, time_points,
                    soc_points, current_points, app_points, segment_points, probe,
                    result >>
    /\ UNCHANGED << shared_vars, call >>

\* The returned dictionary; 0 for an app get_app does not know
SimulateReturn ==
    /\ driver = "simulate" /\ pc = "loop"
    /\ \/ get_app(app_name) = "None"
       \/ ~SimLoopCond(Q_current, t_seconds, max_seconds)
    /\ result' =
         IF get_app(app_name) = "None" THEN 0
         ELSE [end_soc |-> IF Q_current > 0 THEN SocPercent(Q_current) ELSE 0,
               total_hours |-> t_seconds,
               avg_current |-> IF t_seconds > 0
                               THEN (InitialCharge(soc_initial) - Q_current) \div t_seconds
                               ELSE 0]
    /\ pc' = "done"
    /\ UNCHANGED << driver, journey, app_name, soc_initial, max_seconds, Q_current,
                    t_seconds, elapsed_time, I_now, I_lo, I_hi, segment_index,
                    current_segment_start, time_points, soc_points, current_points,
                    app_points, segment_points, hourly_records, probe >>
    /\ UNCHANGED << shared_vars, call >>

(***************************************************************************)
(* scenario_static_benchmark.py: run_benchmarks, and the np.random state   *)
(* that software_model.get_activity draws from                             *)
(***************************************************************************)
\* The runs one process makes at most
MaxRuns == 2

\* np.random is one generator for the whole process: seeded, it yields one
\* fixed stream of draws, and every np.random.choice call takes the next one.
\* The streams of the seeds tried, each repeated without end
SeedStreams == << << 0 >>, << 100, 0, 30 >>, << 0, 100 >> >>
Seeds == 1..Len(SeedStreams)

\* Mutant: a generator that takes its draw from how many runs came before,
\* whatever it was seeded with
np_random_choice_unseeded(rng) ==
    [value |-> IF Len(bench_runs) % 2 = 0 THEN 0 ELSE 100,
     rng |-> [seed |-> rng.seed, pos |-> rng.pos + 1]]

\* np.random.choice([0.0, 0.3, 1.0], p=...) on the generator state rng: the
\* value drawn, in percent, and the state after the call
np_random_choice(rng) ==
    LET stream == SeedStreams[rng.seed]
    IN  [value |-> stream[(rng.pos % Len(stream)) + 1],
         rng |-> [seed |-> rng.seed, pos |-> rng.pos + 1]]

\* Whether calculate_current_for_app of the app reaches np.random.choice
ConsumesDraw(app) == DrawsOf(app) = RandomChoices

\* The loop of simulate_single_scenario run to its end from (Q, t) with the
\* generator in state rng: the charge, the time and the generator state when
\* the loop is left, and the currents of its steps
RECURSIVE StaticLoop(_, _, _, _, _, _)
StaticLoop(app, Q, t, bound, rng, currents) ==
    IF ~StaticLoopCond(t, bound, Q)
    THEN [Q |-> Q, t |-> t, rng |-> rng, currents |-> currents]
    ELSE LET c == np_random_choice(rng)
             I == calculate_current_for_app(app, t, IF ConsumesDraw(app) THEN c.value ELSE 0)
         IN  StaticLoop(app, Q - I * StaticDt, t + StaticDt, bound,
                        IF ConsumesDraw(app) THEN c.rng ELSE rng,
                        Append(currents, I))

\* simulate_single_scenario(app_name, soc_initial, max_hours) as one call
simulate_single_scenario(app, soc, bound, rng) ==
    LET end == StaticLoop(app, InitialCharge(soc), 0, bound, rng, << >>)
    IN  [tte |-> Round2Hours(StaticTte(end.Q, end.t, bound)),
         currents |-> end.currents, rng |-> end.rng]

\* The grid of run_benchmarks: app categories and initial SOC levels, and the
\* time bound of its runs
BenchApps == {"browser", "video", "music"}
BenchSocs == {140, 150}
BenchBound == 30 * MaxBoundUnits

\* One iteration of the loops of run_benchmarks, the (app, SOC) pairs taken
\* in any order and any number of times
BenchRun ==
    /\ driver = "bench" /\ Len(bench_runs) < MaxRuns
    /\ \E app \in BenchApps, soc \in BenchSocs :
         LET run == simulate_single_scenario(app, soc, BenchBound, rng_state)
         IN  /\ bench_runs' = Append(bench_runs,
                     [app |-> app, soc |-> soc, rng |-> rng_state,
                      tte |-> run.tte, currents |-> run.currents])
             /\ rng_state' = run.rng
    /\ UNCHANGED << run_vars, call >>

\* np.random.seed(seed) between two runs, with the seed of the first run
BenchSeed ==
    /\ driver = "bench" /\ rng_state.pos > 0
    /\ rng_state' = [seed |-> rng_state.seed, pos |-> 0]
    /\ UNCHANGED << run_vars, bench_runs, call >>

(***************************************************************************)
(* The interpolate_time_series of the four component scripts, and the      *)
(* numpy functions they rest on.  Times and values are integers; a value   *)
(* np.interp returns is the exact fraction [num, den]                      *)
(***************************************************************************)
\* Bounds of the waypoint sequences
MaxWaypoints == 3
MaxWayTime == 4

\* The times and the values of a waypoint sequence [[t0, v0], [t1, v1], ...]
TimesOf(seq) == [i \in 1..Len(seq) |-> seq[i][1]]
ValuesOf(seq) == [i \in 1..Len(seq) |-> seq[i][2]]

\* Mutant: the value of the waypoint on the left of t, no line
np_interp_step(t, times, values) ==
    IF Len(times) = 0 THEN "ValueError"
    ELSE IF t < times[1] THEN [num |-> values[1], den |-> 1]
    ELSE LET j == CHOOSE k \in 1..Len(times) :
                      /\ times[k] <= t
                      /\ (k < Len(times) => t < times[k + 1])
         IN  [num |-> values[j], den |-> 1]

\* np.interp(t, times, values) for ascending times: ValueError for no sample
\* points, the first (last) value left (right) of them, the value itself at a
\* sample point, slope * (t - times[j]) + values[j] between two of them
np_interp(t, times, values) ==
    IF Len(times) = 0 THEN "ValueError"
    ELSE IF t < times[1] THEN [num |-> values[1], den |-> 1]
    ELSE IF t > times[Len(times)] THEN [num |-> values[Len(times)], den |-> 1]
    ELSE LET j == CHOOSE k \in 1..Len(times) :
                      /\ times[k] <= t
                      /\ (k < Len(times) => t < times[k + 1])
         IN  IF times[j] = t THEN [num |-> values[j], den |-> 1]
             ELSE LET den == times[j + 1] - times[j]
                  IN  [num |-> values[j] * den
                                 + (values[j + 1] - values[j]) * (t - times[j]),
                       den |-> den]

\* Mutant: the last of the nearest waypoints instead of the first
np_argmin_abs_last(times, t) ==
    IF Len(times) = 0 THEN "ValueError"
    ELSE CHOOSE i \in 1..Len(times) :
            /\ \A k \in 1..Len(times) : Abs(times[i] - t) <= Abs(times[k] - t)
            /\ \A k \in (i + 1)..Len(times) : Abs(times[i] - t) < Abs(times[k] - t)

\* np.argmin(np.abs(times - t)): the first index of the smallest distance,
\* ValueError for an empty array
np_argmin_abs(times, t) ==
    IF Len(times) = 0 THEN "ValueError"
    ELSE CHOOSE i \in 1..Len(times) :
            /\ \A k \in 1..Len(times) : Abs(times[i] - t) <= Abs(times[k] - t)
            /\ \A k \in 1..(i - 1) : Abs(times[k] - t) > Abs(times[i] - t)

\* interpolate_time_series(t, seq, is_numeric) of "Cellular Network-code.py"
interpolate_time_series(t, seq, is_numeric) ==
    IF is_numeric THEN np_interp(t, TimesOf(seq), ValuesOf(seq))
    ELSE IF Len(seq) = 0 THEN np_argmin_abs(TimesOf(seq), t)
    ELSE LET idx == np_argmin_abs(TimesOf(seq), t)
         IN  ValuesOf(seq)[idx]

\* interpolate_time_series of blueteeth-code.py
Bluetooth_interpolate_time_series(t, seq, is_numeric) ==
    IF is_numeric THEN np_interp(t, TimesOf(seq), ValuesOf(seq))
    ELSE IF Len(seq) = 0 THEN np_argmin_abs(TimesOf(seq), t)
    ELSE LET idx == np_argmin_abs(TimesOf(seq), t)
         IN  ValuesOf(seq)[idx]

\* interpolate_time_series of hotspot-code.py
Hotspot_interpolate_time_series(t, seq, is_numeric) ==
    IF is_numeric THEN np_interp(t, TimesOf(seq), ValuesOf(seq))
    ELSE IF Len(seq) = 0 THEN np_argmin_abs(TimesOf(seq), t)
    ELSE LET idx == np_argmin_abs(TimesOf(seq), t)
         IN  ValuesOf(seq)[idx]

\* interpolate_time_series of wifi-code.py
WiFi_interpolate_time_series(t, seq, is_numeric) ==
    IF is_numeric THEN np_interp(t, TimesOf(seq), ValuesOf(seq))
    ELSE IF Len(seq) = 0 THEN np_argmin_abs(TimesOf(seq), t)
    ELSE LET idx == np_argmin_abs(TimesOf(seq), t)
         IN  ValuesOf(seq)[idx]

\* The waypoint sequences the interpolators are called on: up to MaxWaypoints
\* waypoints at ascending times of 0..MaxWayTime, numeric or categorical
NumericValues == {0, 30, -20}
CategoricalValues == {"2.4GHz", "5GHz"}
RECURSIVE AscendingTimes(_, _)
AscendingTimes(n, from) ==
    IF n = 0 THEN { << >> }
    ELSE UNION { { << first >> \o rest : rest \in AscendingTimes(n - 1, first + 1) } :
                 first \in from..MaxWayTime }
WaypointSeqs(values) ==
    UNION { { [i \in 1..n |-> << times[i], vals[i] >>] :
              times \in AscendingTimes(n, 0), vals \in [1..n -> values] } :
            n \in 0..MaxWaypoints }
InterpCalls(is_numeric) ==
    { [seq |-> seq, is_numeric |-> is_numeric, t |-> -2, ret |-> "none"] :
        seq \in WaypointSeqs(IF is_numeric THEN NumericValues
                                           ELSE CategoricalValues) }

\* The four interpolators called with the same arguments, t sweeping the
\* times from before the first waypoint to after the last
Interpolate ==
    /\ driver = "interp" /\ call.t <= MaxWayTime
    /\ LET t == call.t + 1
       IN  call' = [call EXCEPT
                !.t = t,
                !.ret = [cellular |-> interpolate_time_series(t, call.seq, call.is_numeric),
                         bluetooth |-> Bluetooth_interpolate_time_series(t, call.seq, call.is_numeric),
                         hotspot |-> Hotspot_interpolate_time_series(t, call.seq, call.is_numeric),
                         wifi |-> WiFi_interpolate_time_series(t, call.seq, call.is_numeric)]]
    /\ UNCHANGED << run_vars, shared_vars >>

(***************************************************************************)
(* The current contributor models called on their own: Cellular.I of       *)
(* core_model.py and of cellular_test.py, calculate_cellular_current,      *)
(* Sensors.I, WiFi.I and Hotspot.I.  Currents in 0.01 mA                   *)
(***************************************************************************)
\* HardwareConfig.WIFI and HOTSPOT: currents in mA, beta in 0.001,
\* device_coeff in tenths
WIFI == [scan_peak |-> 120, sleep_current |-> 8, k_24ghz |-> 50, k_5ghz |-> 85,
         beta |-> 40]
HOTSPOT == [ap_static |-> 20, k_24ghz |-> 45, k_5ghz |-> 75, device_coeff |-> 3]

\* np.exp(x) for x in 0.001, in 0.0001, at the arguments the calls reach
np_exp(x) ==
    CASE x = 400 -> 14918    [] x = 1200 -> 33201   [] x = 2400 -> 110231
      [] x = 2250 -> 94877   [] x = 3150 -> 233360  [] x = 4500 -> 900171
      [] x = 2500 -> 121824  [] x = 3500 -> 331154  [] x = 5000 -> 1484131
      [] x = 2000 -> 73890   [] x = 2800 -> 164446  [] x = 4000 -> 545981

\* Cellular.I of cellular_test.py: the exponential formula, from the same
\* configuration; handoff_rate in tenths
CellularTest_I(network_type, rssi_db, handoff_rate) ==
    IF NetKey(network_type) \notin DOMAIN static_currents THEN "KeyError"
    ELSE LET I_static == static_currents[NetKey(network_type)] * 100
             I_signal == (CELLULAR.k_rssi * np_exp(CELLULAR.alpha * (-rssi_db))) \div 1000
             I_handoff == (CELLULAR.k_handoff * 100 * handoff_rate) \div 10
         IN  I_static + I_signal + I_handoff

\* calculate_cellular_current(t, T_net_seq, RSSI_seq, H_seq): its own table
\* and coefficients (k_tx = 50, alpha = 0.05, k_handoff = 15); H in tenths
static_current_map == [n2G |-> 20, n3G |-> 45, n4G |-> 70]
calculate_cellular_current(t, T_net_seq, RSSI_seq, H_seq) ==
    LET T_net_t == interpolate_time_series(t, T_net_seq, FALSE)
        RSSI_t == interpolate_time_series(t, RSSI_seq, TRUE)
        H_t == interpolate_time_series(t, H_seq, TRUE)
    IN  IF Len(T_net_seq) = 0 \/ Len(RSSI_seq) = 0 \/ Len(H_seq) = 0
        THEN "ValueError"
        ELSE IF NetKey(T_net_t) \notin DOMAIN static_current_map THEN "KeyError"
        ELSE LET I_static == static_current_map[NetKey(T_net_t)] * 100
                 I_signal == (50 * np_exp(50 * (-(RSSI_t.num \div RSSI_t.den)))) \div 100
                 I_handoff == (15 * 100 * (H_t.num \div H_t.den)) \div 10
             IN  I_static + I_signal + I_handoff

\* WiFi.I(is_on, rssi_db, freq, is_scanning)
k_freq_map_wifi == [f24 |-> WIFI.k_24ghz, f5 |-> WIFI.k_5ghz]
FreqKey(freq) == CASE freq = "2.4GHz" -> "f24" [] freq = "5GHz" -> "f5"
                   [] OTHER -> "none"
WiFiI(is_on, rssi_db, freq, is_scanning) ==
    IF ~is_on THEN 0
    ELSE IF is_scanning THEN WIFI.scan_peak * 100
    ELSE LET I_sleep == WIFI.sleep_current * 100
             k_freq == DictGet(k_freq_map_wifi, FreqKey(freq), 50)
             I_dynamic == (k_freq * np_exp(WIFI.beta * (Abs(rssi_db) - 40))) \div 100
         IN  I_sleep + I_dynamic

\* calculate_wifi_current(t, S_wifi_seq, RSSI_seq, F_wifi_seq, scan_duration)
\* of wifi-code.py, times in seconds: its own coefficients, the scan current
\* added to the connected current within scan_duration of the first waypoint
k_wifi_map == [f24 |-> 50, f5 |-> 85]
calculate_wifi_current(t, S_wifi_seq, RSSI_seq, F_wifi_seq, scan_duration) ==
    IF Len(S_wifi_seq) = 0 \/ Len(RSSI_seq) = 0 \/ Len(F_wifi_seq) = 0
    THEN "ValueError"
    ELSE LET S_wifi_t == WiFi_interpolate_time_series(t, S_wifi_seq, FALSE)
             RSSI_t == WiFi_interpolate_time_series(t, RSSI_seq, TRUE)
             F_wifi_t == WiFi_interpolate_time_series(t, F_wifi_seq, FALSE)
             I_scan_peak == 120
             scan_start == S_wifi_seq[1][1]
             scan_end == scan_start + scan_duration
             I_scan == IF scan_start <= t /\ t <= scan_end THEN I_scan_peak * 100 ELSE 0
             I_wifi_sleep == 8
         IN  IF FreqKey(F_wifi_t) \notin DOMAIN k_wifi_map THEN "KeyError"
             ELSE LET k_wifi_t == k_wifi_map[FreqKey(F_wifi_t)]
                      I_conn_dynamic == (k_wifi_t * 1000000)
                                          \div np_exp(40 * Abs(RSSI_t.num \div RSSI_t.den))
                      I_conn == I_wifi_sleep * 100 + I_conn_dynamic
                  IN  IF S_wifi_t = "1" THEN I_scan + I_conn ELSE 0

\* Hotspot.I(is_active, cellular_current, freq, device_count)
k_freq_map_hotspot == [f24 |-> HOTSPOT.k_24ghz, f5 |-> HOTSPOT.k_5ghz]
HotspotI(is_active, cellular_current, freq, device_count) ==
    IF ~is_active THEN 0
    ELSE LET I_cell == cellular_current
             I_ap_static == HOTSPOT.ap_static * 100
             k_freq == DictGet(k_freq_map_hotspot, FreqKey(freq), 45)
             I_ap_dynamic == k_freq * (10 + HOTSPOT.device_coeff * device_count) * 10
         IN  I_cell + I_ap_static + I_ap_dynamic

\* The calls made: keys of the tables and keys outside them
NetworkTypes == {"2G", "3G", "4G", "5G"}
RssiLevels == {-50, -70, -100}
HandoffRates == {0, 10, 150}
Bands == {"2.4GHz", "5GHz", "6GHz"}
GpsModes == {"off", "track", "search", "standby"}
CamModes == {"off", "video", "photo"}
ImuModes == {"low", "high", "medium"}
ModelCalls ==
    { [fn |-> "Cellular.I", network_type |-> n, rssi_db |-> r, handoff_rate |-> h,
       ret |-> "none"] : n \in NetworkTypes, r \in RssiLevels, h \in HandoffRates }
    \cup { [fn |-> "Sensors.I", gps_mode |-> g, cam_mode |-> c, imu_mode |-> i,
            ret |-> "none"] : g \in GpsModes, c \in CamModes, i \in ImuModes }
    \cup { [fn |-> "WiFi.I", is_on |-> o, rssi_db |-> r, freq |-> f, is_scanning |-> sc,
            ret |-> "none"] : o \in BOOLEAN, r \in RssiLevels, f \in Bands,
                              sc \in BOOLEAN }
    \cup { [fn |-> "calculate_wifi_current", t |-> t, S_wifi |-> sw, rssi_db |-> r,
            freq |-> f, ret |-> "none"] :
              t \in {0, 5}, sw \in {"0", "1"}, r \in RssiLevels, f \in Bands }
    \cup { [fn |-> "Hotspot.I", is_active |-> a, cellular_current |-> 7000,
            freq |-> f, device_count |-> n, ret |-> "none"] :
              a \in BOOLEAN, f \in Bands, n \in {1, 3} }

\* One call: Cellular.I is made on the three cellular models at once,
\* calculate_cellular_current on sequences of one waypoint
ModelCall ==
    /\ driver = "model" /\ pc = "model"
    /\ call' = [call EXCEPT !.ret =
          CASE call.fn = "Cellular.I" ->
                 [core |-> CellularI(call.network_type, call.rssi_db, call.handoff_rate),
                  test |-> CellularTest_I(call.network_type, call.rssi_db,
                                          call.handoff_rate),
                  script |-> calculate_cellular_current(0,
                                 << << 0, call.network_type >> >>,
                                 << << 0, call.rssi_db >> >>,
                                 << << 0, call.handoff_rate >> >>)]
            [] call.fn = "Sensors.I" ->
                 SensorsI(call.gps_mode, call.cam_mode, call.imu_mode)
            [] call.fn = "WiFi.I" ->
                 WiFiI(call.is_on, call.rssi_db, call.freq, call.is_scanning)
            [] call.fn = "calculate_wifi_current" ->
                 calculate_wifi_current(call.t, << << 0, call.S_wifi >> >>,
                                        << << 0, call.rssi_db >> >>,
                                        << << 0, call.freq >> >>, 3)
            [] call.fn = "Hotspot.I" ->
                 HotspotI(call.is_active, call.cellular_current, call.freq,
                          call.device_count)]
    /\ pc' = "returned"
    /\ UNCHANGED << driver, journey, app_name, soc_initial, max_seconds, Q_current,
                    t_seconds, elapsed_time, I_now, I_lo, I_hi, segment_index,
                    current_segment_start, time_points, soc_points, current_points,
                    app_points, segment_points, hourly_records, probe, result >>
    /\ UNCHANGED shared_vars

(***************************************************************************)
(* The activity profiles sampled on their own, second by second            *)
(***************************************************************************)
\* The longest period of get_activity (the video screen rests every 600 s),
\* and the number of such periods sampled
ProfilePeriod == 600
MaxProfilePeriods == 1

\* app_type of the profile classes, and the hardware names of get_activity
AppTypeOf(app) ==
    CASE app = "video" -> "video_stream" [] app = "social" -> "social_media"
      [] app = "navigation" -> "navigation" [] app = "browser" -> "web_browse"
      [] app = "music" -> "music"
Hardware == {"screen", "network", "cpu", "gps", "memory", "storage"}
ParamKeys == {"screen", "network", "cpu", "gpu", "gps", "memory", "storage"}

ProfileCalls == { [app |-> a, t |-> -1, ret |-> "none"] : a \in AppNames }

\* get_params at the next second, get_activity of every hardware name, and
\* the total current the static and the journey driver compute from them
Profile ==
    /\ driver = "profile" /\ call.t < ProfilePeriod * MaxProfilePeriods
    /\ \E draw \in DrawsOf(call.app) :
         LET t == call.t + 1
         IN  call' = [call EXCEPT
                  !.t = t,
                  !.ret = [params |-> get_params(get_app(call.app), t, draw),
                           activity |-> [h \in Hardware |->
                               get_activity(t, AppTypeOf(call.app), h, draw)],
                           I_static |-> calculate_current_for_app(call.app, t, draw),
                           I_journey |-> Journey_calculate_current(call.app, t, draw)]]
    /\ UNCHANGED << run_vars, shared_vars >>

(***************************************************************************)
(* Specification                                                           *)
(***************************************************************************)
Init ==
    /\ driver \in {"journey", "static", "simulate", "probe", "bench", "interp",
                   "model", "profile"}
    /\ pc = IF driver \in {"journey", "static", "simulate"} THEN "loop" ELSE driver
    /\ journey \in CASE driver = "journey" -> Journeys
                     [] driver = "probe" -> ProbeJourneys
                     [] OTHER -> { << >> }
    /\ app_name \in IF driver \in {"static", "simulate"} THEN RunApps ELSE {"none"}
    /\ soc_initial \in IF driver \in {"journey", "static", "simulate"}
                       THEN SocLevels ELSE {0}
    /\ max_seconds \in CASE driver = "static" -> StaticBounds
                         [] driver = "simulate" -> SimulateBounds
                         [] OTHER -> {0}
    /\ Q_current = InitialCharge(soc_initial)
    /\ t_seconds = 0
    /\ elapsed_time = 0
    /\ I_now = 0 /\ I_lo = 0 /\ I_hi = 0
    /\ segment_index = 0
    /\ current_segment_start = 0
    /\ time_points = << >> /\ soc_points = << >> /\ current_points = << >>
    /\ app_points = << >> /\ segment_points = << >>
    /\ hourly_records = << >>
    /\ probe = [elapsed |-> -JourneyDt, app |-> "none", start |-> 0]
    /\ result = "none"
    /\ rng_state \in IF driver = "bench"
                     THEN { [seed |-> s, pos |-> 0] : s \in Seeds }
                     ELSE { [seed |-> 1, pos |-> 0] }
    /\ bench_runs = << >>
    /\ \/ driver = "interp" /\ \E is_numeric \in BOOLEAN : call \in InterpCalls(is_numeric)
       \/ driver = "model" /\ call \in ModelCalls
       \/ driver = "profile" /\ call \in ProfileCalls
       \/ driver \notin {"interp", "model", "profile"} /\ call = [ret |-> "none"]

Next ==
    \/ JourneyStep
    \/ JourneyReturn
    \/ StaticStep
    \/ StaticReturn
    \/ SimulateStep
    \/ SimulateReturn
    \/ Probe
    \/ BenchRun
    \/ BenchSeed
    \/ Interpolate
    \/ ModelCall
    \/ Profile

Spec == Init /\ [][Next]_vars

\* The runs of the three drivers alone: every profile on its own for
\* 1..MaxMinutes minutes and the four short journeys in the dynamic driver,
\* every app name and bound in the two others
RunJourneys ==
    ShortJourneys \cup { << Seg(a, d) >> : a \in AppNames, d \in 1..MaxMinutes }

RunInit ==
    /\ Init
    /\ driver \in {"journey", "static", "simulate"}
    /\ driver = "journey" => journey \in RunJourneys

RunNext ==
    \/ JourneyStep
    \/ JourneyReturn
    \/ StaticStep
    \/ StaticReturn
    \/ SimulateStep
    \/ SimulateReturn

\* The drivers are sequential programs: a loop iteration or a return that can
\* be taken is taken
FairSpec == RunInit /\ [][RunNext]_vars /\ WF_vars(RunNext)

(***************************************************************************)
(* Properties                                                              *)
(***************************************************************************)
\* The time bound of the run: the journey's total duration in the dynamic
\* driver, max_seconds in the two others
TimeBound == IF driver = "journey" THEN total_duration(journey) ELSE max_seconds

\* The one-based position of the first segment whose cumulative duration, in
\* seconds, is at least elapsed (for elapsed up to the total duration)
FirstCovering(segments, elapsed) ==
    CHOOSE k \in 1..Len(segments) :
        /\ elapsed <= SumDurations(segments, k) * 60
        /\ \A j \in 1..(k - 1) : elapsed > SumDurations(segments, j) * 60

Durations(segments) == [k \in 1..Len(segments) |-> segments[k].duration]

\* The samples recorded inside the loop (the appended end-state record is
\* labelled "end")
LoopSamples == { i \in 1..Len(time_points) : app_points[i] # "end" }

\* C1 (as claimed): the segment index recorded with each sample is the
\* zero-based position of the segment active at the sample's elapsed time.
C1_SegmentIndexIsPosition ==
    driver = "journey" =>
        \A i \in LoopSamples :
            /\ app_points[i] = journey[FirstCovering(journey, time_points[i])].app
            /\ segment_points[i] = FirstCovering(journey, time_points[i]) - 1

\* C2: get_current_app resolves the first segment whose cumulative duration
\* is >= the elapsed minutes; at an elapsed time equal to the cumulative end of
\* segment k it resolves segment k, not k+1.
C2_FirstCoveringSegment ==
    (driver = "probe" /\ 0 <= probe.elapsed /\ probe.elapsed <= total_duration(journey)) =>
        LET k == FirstCovering(journey, probe.elapsed) IN
        /\ probe.app = journey[k].app
        /\ probe.start = SumDurations(journey, k - 1)
        /\ \A j \in 1..Len(journey) :
              probe.elapsed = SumDurations(journey, j) * 60
                  => probe.start = SumDurations(journey, j - 1)

\* C2 witness: a call at exactly the cumulative end of a segment that is not
\* the last one resolved the earlier segment
C2_Witness ==
    /\ driver = "probe" /\ Len(journey) >= 2
    /\ probe.elapsed = SumDurations(journey, 1) * 60
    /\ probe.app = journey[1].app /\ probe.start = 0

IsJourney60_60_120 == Durations(journey) = << 60, 60, 120 >>

\* C3 (as claimed): with durations [60, 60, 120] the segment resolved at 59 min
\* is segment 0 and the one resolved at 60 min is segment 1.
C3_Original ==
    (driver = "probe" /\ IsJourney60_60_120) =>
        /\ probe.elapsed = 59 * 60 => (probe.start = 0 /\ probe.app = journey[1].app)
        /\ probe.elapsed = 60 * 60 => (probe.start = 60 /\ probe.app = journey[2].app)

\* C3 (amended): with durations [60, 60, 120] the segment resolved at 59 min
\* and at 60 min is segment 0; segment 1 is resolved for the elapsed times
\* after 60 min up to 120 min.
C3_BoundaryIsEarlierSegment ==
    (driver = "probe" /\ IsJourney60_60_120) =>
        /\ probe.elapsed \in {59 * 60, 60 * 60}
              => (probe.start = 0 /\ probe.app = journey[1].app)
        /\ (60 * 60 < probe.elapsed /\ probe.elapsed <= 120 * 60)
              => (probe.start = 60 /\ probe.app = journey[2].app)

\* C3 witness: the call at 60 min on the [60, 60, 120] journey resolved segment 0
C3_Witness ==
    /\ driver = "probe" /\ IsJourney60_60_120
    /\ probe.elapsed = 60 * 60 /\ probe.start = 0 /\ probe.app = "navigation"

\* C4 (as claimed): an elapsed time past the journey's total duration resolves
\* to a result of its own, not to the app of a segment of the journey.
C4_PastEndIsDistinct ==
    (driver = "probe" /\ probe.elapsed > total_duration(journey)) =>
        probe.app \notin { journey[k].app : k \in 1..Len(journey) }

\* BatterySimulator.simulate ran its loop (get_app knew the app)
SimulateRan == driver = "simulate" /\ get_app(app_name) # "None"

\* C5 (as claimed): every SOC value reported for a run (each recorded sample
\* and the final SOC) is never negative, and the final SOC of a depleted run
\* is exactly 0.
C5_ReportedSocNeverNegative ==
    /\ \A i \in 1..Len(soc_points) : soc_points[i] >= 0
    /\ \A i \in 1..Len(hourly_records) : hourly_records[i].soc >= 0
    /\ (driver = "journey" /\ pc = "done") =>
           (result.final_soc >= 0 /\ (Q_current <= 0 => result.final_soc = 0))
    /\ (SimulateRan /\ pc = "done") =>
           (result.end_soc >= 0 /\ (Q_current <= 0 => result.end_soc = 0))

\* C6 (as claimed): a run that does not deplete stops when the elapsed time
\* reaches the time bound: the integrated time (steps * dt) equals the bound.
C6_StopsAtBound ==
    (pc = "done" /\ Q_current > 0 /\ (driver \in {"journey", "static"} \/ SimulateRan))
        => t_seconds = TimeBound

\* A finished run that depleted under one and the same current I > 0 at every
\* step
ConstantCurrentDepleted ==
    /\ pc = "done" /\ Q_current <= 0 /\ t_seconds > 0
    /\ I_lo = I_hi /\ I_lo > 0

\* |tte - Q/I| <= tolerance, in seconds, multiplied through by I
TteWithin(tte_seconds, tolerance) ==
    Abs(tte_seconds * I_lo - InitialCharge(soc_initial)) <= tolerance * I_lo

\* C7 (as claimed): for a constant current I > 0 and initial charge Q the
\* returned time-to-empty differs from Q/I by at most one integration step
\* (10 s in simulate_single_scenario, 1 s in BatterySimulator.simulate).
C7_Original ==
    /\ (driver = "static" /\ ConstantCurrentDepleted)
           => TteWithin(result.tte * 36, StaticDt)
    /\ (SimulateRan /\ ConstantCurrentDepleted)
           => TteWithin(result.total_hours, SimDt)

\* C7 (amended): the time-to-empty of BatterySimulator.simulate differs from
\* Q/I by at most one step (1 s); the one of simulate_single_scenario, which is
\* rounded to 0.01 h, by at most one step plus half of 0.01 h (10 s + 18 s).
C7_WithinStepAndRounding ==
    /\ (driver = "static" /\ ConstantCurrentDepleted)
           => TteWithin(result.tte * 36, StaticDt + 18)
    /\ (SimulateRan /\ ConstantCurrentDepleted)
           => TteWithin(result.total_hours, SimDt)

\* C7 witness: a static run of two or more steps of one current depleted, and
\* its rounded TTE is more than one step away from Q/I
C7_Witness ==
    /\ driver = "static" /\ ConstantCurrentDepleted /\ t_seconds >= 2 * StaticDt
    /\ ~TteWithin(result.tte * 36, StaticDt)

\* The run is over: depleted, timed out, or refused for an unknown app
Depleted == pc = "done" /\ Q_current <= 0
TimedOut == pc = "done" /\ t_seconds >= TimeBound
Refused == pc = "done" /\ driver = "simulate" /\ get_app(app_name) = "None"

\* C8: every run terminates: the integration loop eventually reaches Depleted
\* or TimedOut, also for an app whose total current is 0 at every step
\* (BatterySimulator.simulate returns at once for such an app).
C8_Terminates == <>(Depleted \/ TimedOut \/ Refused)

\* C8 witness: a static run of an app of zero current at every step timed out
\* with its charge untouched
C8_Witness ==
    /\ driver = "static" /\ app_name = "unknown" /\ TimedOut
    /\ t_seconds > 0 /\ Q_current = InitialCharge(soc_initial)

\* C9: sampling is purely observational: every loop iteration, whether it
\* records a sample or not, advances the elapsed time by dt and takes
\* I_now * dt off the charge, and the return changes neither.
C9_SamplingObservational ==
    [][ /\ (driver = "journey" /\ pc = "loop" /\ pc' = "loop")
            => /\ t_seconds' = t_seconds + JourneyDt
               /\ Q_current' = Q_current - I_now' * JourneyDt
        /\ (driver = "simulate" /\ pc = "loop" /\ pc' = "loop")
            => /\ t_seconds' = t_seconds + SimDt
               /\ Q_current' = Q_current - I_now' * SimDt
        /\ (pc = "loop" /\ pc' = "done")
            => /\ UNCHANGED << t_seconds, Q_current >>
               /\ driver = "journey" => result'.final_soc = ClampedSoc(Q_current)
      ]_vars

\* C9 witness: a journey run that has taken steps that recorded a sample and
\* steps that did not
C9_Witness ==
    /\ driver = "journey" /\ pc = "loop"
    /\ Len(time_points) >= 2 /\ t_seconds % JourneySampleEvery = 2 * JourneyDt
    /\ Q_current < InitialCharge(soc_initial)

\* Record i carries the app active at its time and a current computed from
\* that app's profile at its time
RecordFaithful(i) ==
    LET cur == get_current_app(journey, time_points[i]) IN
    /\ app_points[i] = cur.app
    /\ \E draw \in DrawsOf(cur.app) :
          current_points[i] = Journey_calculate_current(cur.app, time_points[i], draw)

\* C10 (as claimed): every record of the time series carries the current just
\* computed for its elapsed time and the app active at that time.
C10_Original ==
    driver = "journey" => \A i \in 1..Len(time_points) : RecordFaithful(i)

\* C10 (amended): every record but the end-state record carries the current
\* just computed for its elapsed time and the app active at that time; the
\* end-state record, appended last after the loop, carries app "end" and
\* current 0.
C10_LoopRecordsFaithful ==
    driver = "journey" =>
        /\ \A i \in LoopSamples : RecordFaithful(i)
        /\ \A i \in 1..Len(time_points) :
              app_points[i] = "end" =>
                  (i = Len(time_points) /\ pc = "done" /\ current_points[i] = 0)
        /\ (pc = "loop" /\ Len(time_points) > 0
               /\ time_points[Len(time_points)] = t_seconds - JourneyDt)
              => current_points[Len(time_points)] = I_now

\* C10 witness: a finished journey whose series ends with the end-state record
\* after samples of the loop
C10_Witness ==
    /\ driver = "journey" /\ pc = "done" /\ Len(time_points) >= 3
    /\ app_points[Len(time_points)] = "end"
    /\ current_points[Len(time_points) - 1] > 0

\* Run i of the benchmark process, had it been the first run after seeding
AsFirstRun(i) ==
    simulate_single_scenario(bench_runs[i].app, bench_runs[i].soc, BenchBound,
                             [seed |-> bench_runs[i].rng.seed, pos |-> 0])

C12_RunsShareNoState ==
    driver = "bench" =>
        \A i \in 1..Len(bench_runs) : bench_runs[i].tte = AsFirstRun(i).tte

\* The subsystems of a profile's parameter set
Subsystems == {"screen", "network", "cpu", "gpu", "gps", "memory", "storage"}

\* The model current of one subsystem for its parameters; handoff_rate is
\* the one the driver hands to Cellular.I
SubsystemCurrent(params, sub, handoff_rate) ==
    CASE sub = "screen"  -> DisplayI(params.screen.brightness)
      [] sub = "cpu"     -> ProcessorI(params.cpu.freq, params.cpu.load, 0, 0)
      [] sub = "gpu"     -> ProcessorI(0, 0, params.gpu.freq, params.gpu.load)
      [] sub = "memory"  -> MemoryI(params.memory.bw_r, params.memory.bw_w)
      [] sub = "storage" -> StorageI(params.storage.is_active)
      [] sub = "gps"     -> SensorsI(params.gps.mode, "off", "low")
      [] sub = "network" -> CellularI(params.network.network_type,
                                      params.network.rssi_db, handoff_rate)

RECURSIVE SumOver(_, _)
SumOver(f, S) ==
    IF S = {} THEN 0
    ELSE LET x == CHOOSE y \in S : TRUE IN f[x] + SumOver(f, S \ {x})

\* The sum over every subsystem of current * own activity * own eta
WeightedSum(params, handoff_rate) ==
    SumOver([sub \in Subsystems |->
                Weighted(SubsystemCurrent(params, sub, handoff_rate),
                         params[sub].activity, params[sub].eta)],
            Subsystems)

\* The app, the time and the handoff rate of the last step of the run
LastStepApp ==
    IF driver = "journey"
    THEN get_current_app(journey, t_seconds - JourneyDt).app
    ELSE app_name
LastStepTime ==
    t_seconds - (CASE driver = "journey" -> JourneyDt
                   [] driver = "static" -> StaticDt
                   [] OTHER -> SimDt)
DriverHandoff == IF driver = "simulate" THEN 1 ELSE 10

\* C13 (as claimed): at every step the total instantaneous current is the
\* sum, over every subsystem of the parameter set, of the subsystem's model
\* current times its own activity times its own efficiency multiplier.
C13_TotalIsWeightedSum ==
    (/\ driver \in {"journey", "static", "simulate"}
     /\ t_seconds > 0
     /\ get_app(LastStepApp) # "None")
        => \E draw \in DrawsOf(LastStepApp) :
              I_now = WeightedSum(get_params(LastStepApp, LastStepTime, draw),
                                  DriverHandoff)

\* C14: for every network generation of the table, RSSI and handoff rate,
\* Cellular.I of core_model.py, Cellular.I of cellular_test.py and
\* calculate_cellular_current return the same current
C14_OneCellularFormula ==
    (driver = "model" /\ pc = "returned" /\ call.fn = "Cellular.I"
        /\ NetKey(call.network_type) \in DOMAIN static_currents)
    => (call.ret.core = call.ret.test /\ call.ret.core = call.ret.script)

\* C15: for each of the five profiles, every subsystem and every time t >= 0,
\* the activity of get_params and of get_activity lies in [0, 1] (0..100 percent)
C15_ActivityIsFraction ==
    (driver = "profile" /\ call.t >= 0)
    => /\ \A k \in ParamKeys : call.ret.params[k].activity \in 0..100
       /\ \A h \in Hardware : call.ret.activity[h] \in 0..100

\* The video profile in the ten seconds its screen rests: the screen at 0,
\* the CPU at its base 0.1, the memory at half of that, the network at 0.3
C15_Witness ==
    /\ driver = "profile" /\ call.app = "video" /\ call.t = 595
    /\ call.ret.params.screen.activity = 0
    /\ call.ret.params.cpu.activity = 10
    /\ call.ret.activity["memory"] = 5
    /\ call.ret.params.network.activity = 30

\* C16: a static-benchmark run requested for an app name that get_app resolves
\* to no profile aborts at once: it takes no step of the loop and returns no TTE
C16_UnknownAppAborts ==
    (driver = "static" /\ get_app(app_name) = "None")
    => (t_seconds = 0 /\ pc # "done")

\* C17: a contributor model given a key outside its table (network generation,
\* Wi-Fi or hotspot band, GPS, camera or IMU mode) raises; it returns no current
UnknownKey ==
    CASE call.fn = "Cellular.I" -> NetKey(call.network_type) \notin DOMAIN static_currents
      [] call.fn = "Sensors.I" -> \/ call.gps_mode \notin DOMAIN gps_map
                                  \/ call.cam_mode \notin DOMAIN cam_map
                                  \/ call.imu_mode \notin DOMAIN imu_map
      [] call.fn = "WiFi.I" -> /\ call.is_on /\ ~call.is_scanning
                               /\ FreqKey(call.freq) \notin DOMAIN k_freq_map_wifi
      [] call.fn = "Hotspot.I" -> /\ call.is_active
                                  /\ FreqKey(call.freq) \notin DOMAIN k_freq_map_hotspot
      [] OTHER -> FALSE
C17_UnknownKeyRaises ==
    (driver = "model" /\ pc = "returned" /\ UnknownKey)
    => IF call.fn = "Cellular.I"
       THEN call.ret.core = "KeyError" /\ call.ret.test = "KeyError"
            /\ call.ret.script = "KeyError"
       ELSE call.ret \notin Int

\* C18: each interpolator called with an empty waypoint sequence, numeric or
\* categorical, raises a ConfigurationError
C18_EmptyIsConfigurationError ==
    (driver = "interp" /\ call.t >= -1 /\ Len(call.seq) = 0)
    => /\ call.ret.cellular = "ConfigurationError"
       /\ call.ret.bluetooth = "ConfigurationError"
       /\ call.ret.hotspot = "ConfigurationError"
       /\ call.ret.wifi = "ConfigurationError"

\* The nearest waypoints of a sequence at time t
Nearest(seq, t) ==
    { i \in 1..Len(seq) :
        \A k \in 1..Len(seq) : Abs(seq[i][1] - t) <= Abs(seq[k][1] - t) }

\* C19: for a categorical sequence each interpolator returns the value of a
\* waypoint nearest to t in time, and of the earliest such waypoint when two
\* are equally near
C19_NearestEarlierWins ==
    (driver = "interp" /\ call.t >= -1 /\ ~call.is_numeric /\ Len(call.seq) > 0)
    => LET first == CHOOSE i \in Nearest(call.seq, call.t) :
                        \A k \in Nearest(call.seq, call.t) : i <= k
       IN  /\ call.ret.cellular = call.seq[first][2]
           /\ call.ret.bluetooth = call.seq[first][2]
           /\ call.ret.hotspot = call.seq[first][2]
           /\ call.ret.wifi = call.seq[first][2]

\* t equidistant from two waypoints of different values, the earlier returned
C19_Witness ==
    /\ driver = "interp" /\ call.t >= -1 /\ ~call.is_numeric
    /\ Len(call.seq) = 2
    /\ call.t - call.seq[1][1] = call.seq[2][1] - call.t
    /\ call.seq[1][2] = "5GHz" /\ call.seq[2][2] = "2.4GHz"
    /\ call.ret.hotspot = "5GHz" /\ call.ret.wifi = "5GHz"

\* Whether the fraction r is the value v, and whether the point (t, r) lies
\* on the line through the waypoints a and b
IsValue(r, v) == r.num = v * r.den
OnLine(t, r, a, b) ==
    (r.num - a[2] * r.den) * (b[1] - a[1]) = (b[2] - a[2]) * (t - a[1]) * r.den

\* What a numeric sequence of ascending times must give at t
ExpectedNumeric(seq, t, r) ==
    /\ t < seq[1][1] => IsValue(r, seq[1][2])
    /\ t > seq[Len(seq)][1] => IsValue(r, seq[Len(seq)][2])
    /\ \A i \in 1..Len(seq) : t = seq[i][1] => IsValue(r, seq[i][2])
    /\ \A i \in 1..(Len(seq) - 1) :
         (seq[i][1] < t /\ t < seq[i + 1][1]) => OnLine(t, r, seq[i], seq[i + 1])

\* C20: for a numeric sequence with ascending times each interpolator returns
\* the waypoint's value at a waypoint time, a value on the line between the
\* two bracketing waypoints strictly between them, and the first (last)
\* waypoint's value before the first (after the last) waypoint
C20_PiecewiseLinear ==
    (driver = "interp" /\ call.t >= -1 /\ call.is_numeric /\ Len(call.seq) > 0)
    => /\ ExpectedNumeric(call.seq, call.t, call.ret.cellular)
       /\ ExpectedNumeric(call.seq, call.t, call.ret.bluetooth)
       /\ ExpectedNumeric(call.seq, call.t, call.ret.hotspot)
       /\ ExpectedNumeric(call.seq, call.t, call.ret.wifi)

\* t strictly between two waypoints of different values, the result strictly
\* between the two values
C20_Witness ==
    /\ driver = "interp" /\ call.t >= -1 /\ call.is_numeric
    /\ Len(call.seq) = 3
    /\ call.seq[2][1] < call.t /\ call.t < call.seq[3][1]
    /\ call.seq[2][2] = -20 /\ call.seq[3][2] = 30
    /\ call.ret.cellular.num > -20 * call.ret.cellular.den
    /\ call.ret.cellular.num < 30 * call.ret.cellular.den
    /\ call.ret.hotspot = call.ret.cellular

\* C21: with the other arguments fixed, the cellular current of the three
\* cellular models, the connected Wi-Fi current of WiFi.I and that of
\* calculate_wifi_current are strictly larger at every worse RSSI of the range
C21_WorseSignalCostsMore ==
    (driver = "model" /\ pc = "returned"
        /\ call.fn \in {"Cellular.I", "WiFi.I", "calculate_wifi_current"})
    => \A worse \in RssiLevels :
         worse < call.rssi_db =>
           CASE call.fn = "Cellular.I" /\ NetKey(call.network_type) \in DOMAIN static_currents ->
                  /\ CellularI(call.network_type, worse, call.handoff_rate) > call.ret.core
                  /\ CellularTest_I(call.network_type, worse, call.handoff_rate)
                       > call.ret.test
                  /\ calculate_cellular_current(0, << << 0, call.network_type >> >>,
                         << << 0, worse >> >>, << << 0, call.handoff_rate >> >>)
                       > call.ret.script
             [] call.fn = "WiFi.I" /\ call.is_on /\ ~call.is_scanning ->
                  WiFiI(call.is_on, worse, call.freq, call.is_scanning) > call.ret
             [] call.fn = "calculate_wifi_current" /\ call.S_wifi = "1"
                  /\ FreqKey(call.freq) \in DOMAIN k_wifi_map ->
                  calculate_wifi_current(call.t, << << 0, call.S_wifi >> >>,
                      << << 0, worse >> >>, << << 0, call.freq >> >>, 3) > call.ret
             [] OTHER -> TRUE

\* C22: the Wi-Fi current of WiFi.I and of calculate_wifi_current is exactly 0
\* with the radio off, exactly the scan peak with the radio on and scanning,
\* and the sleep current plus a positive band term with it on and not scanning
C22_WifiStates ==
    (driver = "model" /\ pc = "returned")
    => CASE call.fn = "WiFi.I" ->
              /\ ~call.is_on => call.ret = 0
              /\ (call.is_on /\ call.is_scanning) => call.ret = WIFI.scan_peak * 100
              /\ (call.is_on /\ ~call.is_scanning) => call.ret > WIFI.sleep_current * 100
         [] call.fn = "calculate_wifi_current" /\ FreqKey(call.freq) \in DOMAIN k_wifi_map ->
              /\ call.S_wifi = "0" => call.ret = 0
              /\ (call.S_wifi = "1" /\ call.t <= 3) => call.ret = 120 * 100
              /\ (call.S_wifi = "1" /\ call.t > 3) => call.ret > 8 * 100
         [] OTHER -> TRUE

\* C23: for every app name and elapsed time, and the same profile values,
\* calculate_current_for_app of the static driver and calculate_current of the
\* journey driver return the same total current (0.0 both for an unknown name)
C23_DriversAgree ==
    (driver = "profile" /\ call.t >= 0)
    => /\ call.ret.I_static = call.ret.I_journey
       /\ calculate_current_for_app("unknown", call.t, 0)
            = Journey_calculate_current("unknown", call.t, 0)

\* The social profile at a second its storage is active and its screen on
C23_Witness ==
    /\ driver = "profile" /\ call.app = "social" /\ call.t = 30
    /\ call.ret.params.storage.activity = 100
    /\ call.ret.I_static > 0
    /\ call.ret.I_journey = call.ret.I_static

\* C24: the sample simulate_journey records in its loop at elapsed time t
\* reports the SOC of the charge left after exactly t seconds, the charge the
\* step starts with; the sample at t = 0 so reports the initial SOC
C24_SampleIsSocAtItsTime ==
    [][(driver = "journey" /\ pc' = "loop" /\ Len(soc_points') = Len(soc_points) + 1)
        => /\ time_points'[Len(time_points')] = t_seconds
           /\ soc_points'[Len(soc_points')] = ClampedSoc(Q_current)]_vars

\* The deterministic periodic schedules of get_activity the drivers evaluate:
\* period in seconds, high time per period in tenths of a second
Schedule(app, hardware, period, high) ==
    [app |-> app, hardware |-> hardware, period |-> period, high |-> high]
Schedules ==
    { Schedule("video", "screen", 600, 5900), Schedule("social", "screen", 60, 450),
      Schedule("browser", "screen", 60, 500), Schedule("video", "network", 30, 50),
      Schedule("social", "network", 10, 5), Schedule("navigation", "network", 60, 20),
      Schedule("social", "storage", 30, 10) }

\* The number of the steps at 0, dt, ..., t - dt that find the schedule high
HighSteps(sch, dt, t) ==
    Cardinality({ k \in 0..(t \div dt - 1) :
        get_activity(k * dt, AppTypeOf(sch.app), sch.hardware, 0) = 100 })

\* high steps / steps = high time / period
DutyCycleKept(sch, dt, t) ==
    HighSteps(sch, dt, t) * sch.period * 10 = sch.high * (t \div dt)

\* C25: over any whole number of periods of a schedule, the share of the
\* steps of the static driver (10 s) and of the journey driver (15 s, within
\* the first segment) that find it high equals its duty cycle
C25_StepsKeepDutyCycle ==
    /\ (driver = "static" /\ app_name \in AppNames /\ t_seconds > 0)
       => \A sch \in Schedules :
            (sch.app = app_name /\ t_seconds % sch.period = 0)
            => DutyCycleKept(sch, StaticDt, t_seconds)
    /\ (driver = "journey" /\ t_seconds > 0 /\ t_seconds <= journey[1].duration * 60)
       => \A sch \in Schedules :
            (sch.app = journey[1].app /\ t_seconds % sch.period = 0)
            => DutyCycleKept(sch, JourneyDt, t_seconds)

\* C26: the five arrays of simulate_journey have equal length at every moment,
\* time_hours is strictly increasing, and the returned series, the end-state
\* record included, has at least one record
C26_SeriesWellFormed ==
    driver = "journey"
    => /\ Len(soc_points) = Len(time_points)
       /\ Len(current_points) = Len(time_points)
       /\ Len(app_points) = Len(time_points)
       /\ Len(segment_points) = Len(time_points)
       /\ \A i \in 1..(Len(time_points) - 1) : time_points[i] < time_points[i + 1]
       /\ pc = "done" => Len(time_points) >= 1

\* A returned series of several samples that ends with the end-state record
C26_Witness ==
    /\ driver = "journey" /\ pc = "done"
    /\ Len(time_points) >= 3
    /\ app_points[Len(app_points)] = "end"
    /\ time_points[Len(time_points)] = total_duration(journey)

\* C27: every current simulate_journey computes is non-negative, so its
\* recorded soc_percent values never increase from one sample to the next and
\* never exceed soc_initial * 100
C27_SocNeverIncreases ==
    driver = "journey"
    => /\ I_now >= 0
       /\ \A i \in 1..Len(soc_points) : soc_points[i] <= soc_initial * 10
       /\ \A i \in 1..(Len(soc_points) - 1) : soc_points[i] >= soc_points[i + 1]

\* A returned series whose SOC falls from sample to sample and stays positive
C27_Witness ==
    /\ driver = "journey" /\ pc = "done"
    /\ Len(soc_points) >= 3
    /\ soc_points[1] < soc_initial * 10
    /\ soc_points[2] < soc_points[1]
    /\ soc_points[Len(soc_points)] > 0

\* C28: the summary simulate_journey returns conserves charge: energy_used
\* plus the charge of final_soc is the initial charge soc_initial * Q_total,
\* and energy_used lies between 0 and the initial charge
C28_SummaryConservesCharge ==
    (driver = "journey" /\ pc = "done")
    => /\ result.energy_used + result.final_soc * (QTotalUnits \div 1000000)
            = InitialCharge(soc_initial)
       /\ 0 <= result.energy_used
       /\ result.energy_used <= InitialCharge(soc_initial)

\* A run ended by a step that took more than the charge left
C28_Witness ==
    /\ driver = "journey" /\ pc = "done"
    /\ Q_current < 0
    /\ result.final_soc = 0
    /\ result.energy_used = InitialCharge(soc_initial)

\* The TTE simulate_single_scenario returns for each initial SOC at or below
\* that of the finished run, same app and bound, is at most the run's TTE
TteMonotone ==
    \A soc \in SocLevels :
        soc <= soc_initial
        => simulate_single_scenario(app_name, soc, max_seconds, rng_state).tte
             <= result.tte

\* C29 (as claimed): for an app with a deterministic profile the TTE is
\* monotone in the initial SOC, and every returned TTE is at most max_hours
C29_Original ==
    (driver = "static" /\ pc = "done" /\ ~ConsumesDraw(app_name))
    => (TteMonotone /\ result.tte * 36 <= max_seconds)

\* C29 (amended): for an app with a deterministic profile the TTE is monotone
\* in the initial SOC, and every returned TTE is at most max_hours rounded to
\* 0.01 h, for a bound that is a whole number of steps
C29_TteMonotoneAndBounded ==
    (driver = "static" /\ pc = "done" /\ ~ConsumesDraw(app_name))
    => (TteMonotone /\ result.tte <= Round2Hours(max_seconds))

\* A depleted video run whose TTE is above that of a smaller initial SOC
C29_Witness ==
    /\ driver = "static" /\ pc = "done" /\ app_name = "video"
    /\ Q_current <= 0 /\ soc_initial = 100
    /\ result.tte = 1
    /\ simulate_single_scenario(app_name, 1, max_seconds, rng_state).tte = 0

\* get_current_app leaves its for loop without a return: no segment of the
\* journey covers the elapsed time, and the default ('music', 0) is returned
FallbackTaken(segments, elapsed_seconds) ==
    \A k \in 1..Len(segments) :
        ~SegmentCovers(elapsed_seconds, SumDurations(segments, k))

\* C30: every elapsed time at which the loop of simulate_journey evaluates the
\* current is covered by a segment of the journey; get_current_app never
\* returns its default there
C30_NoFallbackInLoop ==
    [][(driver = "journey" /\ t_seconds' = t_seconds + JourneyDt)
        => ~FallbackTaken(journey, t_seconds)]_vars

\* The last step of a run that outlasts its journey: the current evaluated at
\* exactly the total duration, in the last segment
C30_Witness ==
    /\ driver = "journey" /\ pc = "loop"
    /\ t_seconds = total_duration(journey) + JourneyDt
    /\ Q_current > 0 /\ I_now > 0
    /\ ~FallbackTaken(journey, total_duration(journey))

====
